---- MODULE Spec2Model ----
(***************************************************************************)
(* Model of gymmeforce/common/utils.py: the circular ReplayBuffer (add,    *)
(* sample, _generate_idxs), the RingBuffer (reset, append), egreedy_police,*)
(* discounted_sum_rewards and piecewise_linear_decay; of the loop of       *)
(* DQNAgent.train (gymmeforce/agents/dqn_agent.py); and of the environment *)
(* and buffer handling of train_atari_env.py.  Each component has its own  *)
(* specification, in which the variables of the others stay unused.        *)
(*                                                                         *)
(* A state (frame) handed to ReplayBuffer.add is represented by the        *)
(* ordinal of the add() call that stores it (1, 2, 3, ...), so that every  *)
(* stored frame is distinguishable and its position in time is known.      *)
(* The arrays allocated with np.empty hold arbitrary values until written: *)
(* the flags, actions and rewards of unwritten slots are chosen            *)
(* nondeterministically at allocation, an unwritten state is Garbage.      *)
(* sample() never reads them.                                              *)
(* swapaxes only permutes the layout of the returned arrays and is not     *)
(* modelled: a window is the sequence of its frames, oldest slot first.    *)
(***************************************************************************)
EXTENDS Integers, Sequences, FiniteSets, TLC

\* ---- bounds of the model ------------------------------------------------
MaxMaxlen == 4
MaxHistory == 2
MaxBatch == 2
MaxAdds == 5
MaxRingLen == 3
MaxAppends == 4
MaxRingState == 2
MaxNumActions == 3
MaxQ == 2
DrawRes == 2
MaxRewards == 3
MaxReward == 1
MaxBoundaries == 2
MaxBoundary == 3
MaxNumSteps == 4
MaxLearningFreq == 3
MaxLogSteps == 3
MaxEpisodes == 2
MaxEpisodeReward == 2
MaxRestarts == 2
MaxMinReplays == 3
MaxAtariSteps == 2

Actions == {0, 1}
Rewards == {0, 1}
\* the (action, reward) pairs of the transitions handed to add(): the
\* reward is tied to the action to keep the number of buffer contents small
Effects == {[action |-> a, reward |-> a] : a \in Actions \cap Rewards}
RingStates == 0..MaxRingState
Garbage == 0
NoDraw == -1

VARIABLES
    \* ReplayBuffer fields
    maxlen, history_length, batch_size, initialized,
    states, actions, rewards, dones, current_idx, current_len,
    \* ReplayBuffer.sample / _generate_idxs: position and locals
    pc, start_idxs, end_idxs, start_idx, batch,
    \* number of add() calls so far
    n_adds,
    \* RingBuffer fields, and the states appended since the last reset
    rb_maxlen, rb_current_idx, rb_data, rb_log,
    \* egreedy_police: arguments, position, random draw and returned action
    eg_Q, eg_epsilon, eg_pc, eg_draw, eg_result,
    \* discounted_sum_rewards: arguments, position and returned list
    ds_rewards, ds_gamma, ds_pc, ds_result,
    \* piecewise_linear_decay: arguments, the lists of the closure, position,
    \* and the argument and result of the last get_epsilon call
    pd_boundaries_arg, pd_values, pd_initial_value,
    pd_boundaries, pd_final_epsilons, pd_decay_rates, pd_pc, pd_x, pd_result,
    \* DQNAgent.train: arguments, the model's global step and the one in the
    \* latest checkpoint, the loop's position and locals, the episode rewards
    \* of the monitored environment, the last logged mean, the step the run
    \* started at and the number of restarts of the process
    t_num_steps, t_learning_freq, t_log_steps, t_global_step, t_checkpoint,
    t_pc, t_i_step, t_batch, t_ep_rewards, t_num_episodes, t_num_episodes_old,
    t_mean_ep_rewards, t_start, t_restarts,
    \* train_atari_env.py: MIN_REPLAYS and NUM_STEPS, position, the loop
    \* counters, the episode the environment is in and the one the variable
    \* state belongs to, and the transitions stored in the buffer
    a_min_replays, a_num_steps, a_pc, a_k, a_i_step, a_episode,
    a_state_episode, a_stored

replayVars == <<maxlen, history_length, batch_size, initialized,
                states, actions, rewards, dones, current_idx, current_len,
                pc, start_idxs, end_idxs, start_idx, batch, n_adds>>
ringVars == <<rb_maxlen, rb_current_idx, rb_data, rb_log>>
egVars == <<eg_Q, eg_epsilon, eg_pc, eg_draw, eg_result>>
dsVars == <<ds_rewards, ds_gamma, ds_pc, ds_result>>
pdVars == <<pd_boundaries_arg, pd_values, pd_initial_value,
            pd_boundaries, pd_final_epsilons, pd_decay_rates, pd_pc, pd_x,
            pd_result>>
trainVars == <<t_num_steps, t_learning_freq, t_log_steps, t_global_step,
               t_checkpoint, t_pc, t_i_step, t_batch, t_ep_rewards,
               t_num_episodes, t_num_episodes_old, t_mean_ep_rewards, t_start,
               t_restarts>>
atariVars == <<a_min_replays, a_num_steps, a_pc, a_k, a_i_step, a_episode,
               a_state_episode, a_stored>>
vars == <<replayVars, ringVars, egVars, dsVars, pdVars, trainVars, atariVars>>
notReplayVars == <<ringVars, egVars, dsVars, pdVars, trainVars, atariVars>>
notAtariVars == <<replayVars, ringVars, egVars, dsVars, pdVars, trainVars>>
notTrainVars == <<replayVars, ringVars, egVars, dsVars, pdVars, atariVars>>
notPdVars == <<replayVars, ringVars, egVars, dsVars, trainVars, atariVars>>
notDsVars == <<replayVars, ringVars, egVars, pdVars, trainVars, atariVars>>
notRingVars == <<replayVars, egVars, dsVars, pdVars, trainVars, atariVars>>
notEgVars == <<replayVars, ringVars, dsVars, pdVars, trainVars, atariVars>>

Min(a, b) == IF a <= b THEN a ELSE b

Range(s) == {s[k] : k \in DOMAIN s}

\* arr[a:b] of a numpy array with indices 0..len-1, for a, b >= 0:
\* out-of-range bounds are clipped, the result is a sequence 1..(hi-lo)
Slice(arr, a, b) ==
    LET len == Cardinality(DOMAIN arr)
        lo == Min(a, len)
        hi == Min(b, len)
    IN  [k \in 1..(hi - lo) |-> arr[lo + k - 1]]

NoBatch == [b_states_t |-> <<>>, b_states_tp1 |-> <<>>,
            actions |-> <<>>, rewards |-> <<>>, dones |-> <<>>]

\* ---- ReplayBuffer -------------------------------------------------------

\* ReplayBuffer.__init__
ReplayInit ==
    /\ maxlen \in 1..MaxMaxlen
    /\ history_length \in 1..MaxHistory
    /\ batch_size \in 1..MaxBatch
    /\ initialized = FALSE
    /\ states = <<>>
    /\ actions = <<>>
    /\ rewards = <<>>
    /\ dones = <<>>
    /\ current_idx = 0
    /\ current_len = 0
    /\ pc = "idle"
    /\ start_idxs = <<>>
    /\ end_idxs = <<>>
    /\ start_idx = NoDraw
    /\ batch = NoBatch
    /\ n_adds = 0

\* the buffer is not being used at all
ReplayUnused ==
    /\ maxlen = 1
    /\ history_length = 1
    /\ batch_size = 1
    /\ initialized = FALSE
    /\ states = <<>>
    /\ actions = <<>>
    /\ rewards = <<>>
    /\ dones = <<>>
    /\ current_idx = 0
    /\ current_len = 0
    /\ pc = "idle"
    /\ start_idxs = <<>>
    /\ end_idxs = <<>>
    /\ start_idx = NoDraw
    /\ batch = NoBatch
    /\ n_adds = 0

\* current_idx = (current_idx + 1) % maxlen
NextIdx(idx, m) == (idx + 1) % m

\* current_len = min(current_len + 1, maxlen)
NextLen_NoCap(len, m) == len + 1

NextLen(len, m) == Min(len + 1, m)

\* the slot add() stores the transition in
WriteSlot_Next(idx, m) == (idx + 1) % m

WriteSlot(idx, m) == idx

\* the arrays add() works on: allocated with np.empty (arbitrary contents) by
\* the first add(), the existing ones afterwards
AllocArrays ==
    IF initialized
      THEN {[states |-> states, actions |-> actions,
             rewards |-> rewards, dones |-> dones]}
      ELSE {[states |-> [i \in 0..(maxlen - 1) |-> Garbage],
             actions |-> [i \in 0..(maxlen - 1) |-> ge[i].action],
             rewards |-> [i \in 0..(maxlen - 1) |-> ge[i].reward],
             dones |-> gd] :
                ge \in [0..(maxlen - 1) -> Effects],
                gd \in [0..(maxlen - 1) -> BOOLEAN]}

\* ReplayBuffer.add(state, action, reward, done); the state is frame n_adds+1
Add(action, reward, done) ==
    /\ pc \in {"idle", "returned"}
    /\ n_adds < MaxAdds
    /\ \E fresh \in AllocArrays :
         LET slot == WriteSlot(current_idx, maxlen)
         IN  /\ slot \in 0..(maxlen - 1)
             /\ states' = [fresh.states EXCEPT ![slot] = n_adds + 1]
             /\ actions' = [fresh.actions EXCEPT ![slot] = action]
             /\ rewards' = [fresh.rewards EXCEPT ![slot] = reward]
             /\ dones' = [fresh.dones EXCEPT ![slot] = done]
    /\ initialized' = TRUE
    /\ current_idx' = NextIdx(current_idx, maxlen)
    /\ current_len' = NextLen(current_len, maxlen)
    /\ n_adds' = n_adds + 1
    /\ pc' = "idle"
    /\ UNCHANGED <<maxlen, history_length, batch_size,
                   start_idxs, end_idxs, start_idx, batch>>
    /\ UNCHANGED notReplayVars

\* np.random.randint(low, high): the values it can return; it raises
\* ValueError when the range is empty (high <= low)
Randint_Inclusive(low, high) == low..high

Randint_Clamped(low, high) == IF high > low THEN low..(high - 1) ELSE {low}

Randint(low, high) == low..(high - 1)

\* start_idx in start_idxs
AlreadyPicked_Never(idx, idxs) == FALSE

AlreadyPicked(idx, idxs) == idx \in Range(idxs)

\* np.any(self.dones[start_idx: end_idx - 1])
DoneInside_Never(d, s, e) == FALSE

DoneInside_WithLast(d, s, e) == TRUE \in Range(Slice(d, s, e))

DoneInside(d, s, e) == TRUE \in Range(Slice(d, s, e - 1))

\* ReplayBuffer.sample() is called and enters _generate_idxs
Sample ==
    /\ pc \in {"idle", "returned"}
    /\ pc' = "gen"
    /\ start_idxs' = <<>>
    /\ end_idxs' = <<>>
    /\ start_idx' = NoDraw
    /\ batch' = NoBatch
    /\ UNCHANGED <<maxlen, history_length, batch_size, initialized,
                   states, actions, rewards, dones, current_idx, current_len,
                   n_adds>>
    /\ UNCHANGED notReplayVars

\* one iteration of the while loop of _generate_idxs in which randint
\* returns i
GenDraw(i) ==
    /\ pc = "gen"
    /\ Len(start_idxs) < batch_size
    /\ i \in Randint(0, current_len - history_length)
    /\ start_idx' = i
    /\ LET end_idx == i + history_length
       IN  IF AlreadyPicked(i, start_idxs)
             THEN UNCHANGED <<start_idxs, end_idxs>>
             ELSE IF DoneInside(dones, i, end_idx)
                    THEN UNCHANGED <<start_idxs, end_idxs>>
                    ELSE /\ start_idxs' = Append(start_idxs, i)
                         /\ end_idxs' = Append(end_idxs, end_idx)
    /\ UNCHANGED <<maxlen, history_length, batch_size, initialized,
                   states, actions, rewards, dones, current_idx, current_len,
                   pc, batch, n_adds>>
    /\ UNCHANGED notReplayVars

\* one iteration of the while loop in which randint raises ValueError
GenRaise ==
    /\ pc = "gen"
    /\ Len(start_idxs) < batch_size
    /\ Randint(0, current_len - history_length) = {}
    /\ pc' = "error"
    /\ UNCHANGED <<maxlen, history_length, batch_size, initialized,
                   states, actions, rewards, dones, current_idx, current_len,
                   start_idxs, end_idxs, start_idx, batch, n_adds>>
    /\ UNCHANGED notReplayVars

\* the batch sample() builds from the chosen indices
BuildBatch(s_idxs, e_idxs) ==
    [b_states_t |-> [k \in DOMAIN s_idxs |->
                        Slice(states, s_idxs[k], e_idxs[k])],
     b_states_tp1 |-> [k \in DOMAIN s_idxs |->
                        Slice(states, s_idxs[k] + 1, e_idxs[k] + 1)],
     actions |-> [k \in DOMAIN s_idxs |-> actions[e_idxs[k] - 1]],
     rewards |-> [k \in DOMAIN s_idxs |-> rewards[e_idxs[k] - 1]],
     dones |-> [k \in DOMAIN s_idxs |-> dones[e_idxs[k] - 1]]]

\* the slots sample() and _generate_idxs read for a chosen window: the done
\* flags of [s, e-1), the states of [s, e) and [s+1, e+1), and the action,
\* reward and done of slot e-1
ReadSlots(s, e) == (s..(e - 2)) \cup (s..(e - 1)) \cup ((s + 1)..e) \cup {e - 1}

\* the while loop ends, _generate_idxs returns and sample() returns the batch
SampleReturn ==
    /\ pc = "gen"
    /\ Len(start_idxs) >= batch_size
    /\ batch' = BuildBatch(start_idxs, end_idxs)
    /\ pc' = "returned"
    /\ UNCHANGED <<maxlen, history_length, batch_size, initialized,
                   states, actions, rewards, dones, current_idx, current_len,
                   start_idxs, end_idxs, start_idx, n_adds>>
    /\ UNCHANGED notReplayVars

\* ---- RingBuffer ---------------------------------------------------------

\* np.zeros((maxlen,) + state_shape)
Zeros(m) == [k \in 1..m |-> 0]

\* the RingBuffer is not being used at all
RingUnused ==
    /\ rb_maxlen = 1
    /\ rb_current_idx = 0
    /\ rb_data = Zeros(1)
    /\ rb_log = <<>>

\* RingBuffer.__init__
RingInit ==
    /\ rb_maxlen \in 1..MaxRingLen
    /\ rb_current_idx = 0
    /\ rb_data = Zeros(rb_maxlen)
    /\ rb_log = <<>>

\* RingBuffer.reset
Reset ==
    /\ rb_data' = Zeros(rb_maxlen)
    /\ rb_log' = <<>>
    /\ UNCHANGED <<rb_maxlen, rb_current_idx>>
    /\ UNCHANGED notRingVars

\* np.roll(data, -1, axis=0) of a window of m entries
Roll_Forward(data, m) == [k \in 1..m |-> data[((k - 2) % m) + 1]]

Roll(data, m) == [k \in 1..m |-> data[(k % m) + 1]]

\* the position append() installs the new state at: data[maxlen - 1]
NewestSlot_First(m) == 1

NewestSlot(m) == m

\* RingBuffer.append(data)
RingAppend(x) ==
    /\ Len(rb_log) < MaxAppends
    /\ rb_data' = [Roll(rb_data, rb_maxlen) EXCEPT ![NewestSlot(rb_maxlen)] = x]
    /\ rb_log' = Append(rb_log, x)
    /\ UNCHANGED <<rb_maxlen, rb_current_idx>>
    /\ UNCHANGED notRingVars



\* ---- exact arithmetic ---------------------------------------------------
\* Python floats are modelled by exact rationals <<numerator, denominator>>
\* in lowest terms with a positive denominator; rounding is not modelled.

Abs(a) == IF a < 0 THEN -a ELSE a

RECURSIVE GCD(_, _)
GCD(a, b) == IF b = 0 THEN a ELSE GCD(b, a % b)

Rat(n, d) ==
    LET g == GCD(Abs(n), d)
    IN  IF n = 0 THEN <<0, 1>> ELSE <<n \div g, d \div g>>

RInt(n) == <<n, 1>>

RAdd(x, y) == Rat(x[1] * y[2] + y[1] * x[2], x[2] * y[2])

RSub(x, y) == Rat(x[1] * y[2] - y[1] * x[2], x[2] * y[2])

RNeg(x) == <<-x[1], x[2]>>

RMul(x, y) == Rat(x[1] * y[1], x[2] * y[2])

\* x / y for y # 0
RDiv(x, y) ==
    IF y[1] > 0 THEN Rat(x[1] * y[2], x[2] * y[1])
                ELSE Rat(-(x[1] * y[2]), x[2] * (-y[1]))

\* ---- discounted_sum_rewards ---------------------------------------------

\* the discount factors the function is called with
Gammas == {<<0, 1>>, <<1, 2>>, <<99, 100>>, <<1, 1>>}

\* reversed(rewards)
Reversed(s) == [k \in 1..Len(s) |-> s[Len(s) + 1 - k]]

\* discounted_rewards[::-1]
FinalOrder_Kept(s) == s

FinalOrder(s) == [k \in 1..Len(s) |-> s[Len(s) + 1 - k]]

\* the for loop: reward_sum = reward + gamma * reward_sum, appended to
\* discounted_rewards, for every reward of rev in turn
RECURSIVE DiscountLoop(_, _, _, _)
DiscountLoop(rev, gamma, reward_sum, discounted_rewards) ==
    IF rev = <<>>
      THEN discounted_rewards
      ELSE LET new_sum == RAdd(RInt(Head(rev)), RMul(gamma, reward_sum))
           IN  DiscountLoop(Tail(rev), gamma, new_sum,
                            Append(discounted_rewards, new_sum))

DiscountedSumRewards(rewards_, gamma) ==
    FinalOrder(DiscountLoop(Reversed(rewards_), gamma, RInt(0), <<>>))

\* discounted_sum_rewards is not being used at all
DsUnused ==
    /\ ds_rewards = <<>>
    /\ ds_gamma = <<0, 1>>
    /\ ds_pc = "done"
    /\ ds_result = <<>>

\* the arguments of a call of discounted_sum_rewards(rewards, gamma)
DsInit ==
    /\ ds_rewards \in UNION {[1..n -> (-MaxReward)..MaxReward] : n \in 0..MaxRewards}
    /\ ds_gamma \in Gammas
    /\ ds_pc = "call"
    /\ ds_result = <<>>

\* discounted_sum_rewards(rewards, gamma) runs and returns
DiscountCall ==
    /\ ds_pc = "call"
    /\ ds_result' = DiscountedSumRewards(ds_rewards, ds_gamma)
    /\ ds_pc' = "done"
    /\ UNCHANGED <<ds_rewards, ds_gamma>>
    /\ UNCHANGED notDsVars


\* ---- piecewise_linear_decay ---------------------------------------------
\* Steps and boundaries are natural numbers, values and the initial value
\* are rationals.

\* the multipliers a values list is made of
DecayValues == {<<0, 1>>, <<1, 2>>, <<1, 1>>}

InitialValues == {<<1, 1>>, <<2, 1>>}

StrictlyIncreasing(b) == \A k \in 1..(Len(b) - 1) : b[k] < b[k + 1]

\* piecewise_linear_decay is not being used at all
PdUnused ==
    /\ pd_boundaries_arg = <<1>>
    /\ pd_values = <<>>
    /\ pd_initial_value = <<1, 1>>
    /\ pd_boundaries = <<>>
    /\ pd_final_epsilons = <<>>
    /\ pd_decay_rates = <<>>
    /\ pd_pc = "unused"
    /\ pd_x = 0
    /\ pd_result = <<0, 1>>

\* the arguments of a call of piecewise_linear_decay(boundaries, values,
\* initial_value): strictly increasing non-empty boundaries
PdInit ==
    /\ pd_boundaries_arg \in
           {b \in UNION {[1..n -> 0..MaxBoundary] : n \in 1..MaxBoundaries} :
               StrictlyIncreasing(b)}
    /\ pd_values \in UNION {[1..n -> DecayValues] : n \in 0..(MaxBoundaries + 1)}
    /\ pd_initial_value \in InitialValues
    /\ pd_boundaries = <<>>
    /\ pd_final_epsilons = <<>>
    /\ pd_decay_rates = <<>>
    /\ pd_pc = "call"
    /\ pd_x = 0
    /\ pd_result = <<0, 1>>

\* - (start_e - final_e) / decay_step
DecayRate_NoMinus(start_e, final_e, decay_step) ==
    RDiv(RSub(start_e, final_e), RInt(decay_step))

DecayRate(start_e, final_e, decay_step) ==
    RDiv(RNeg(RSub(start_e, final_e)), RInt(decay_step))

\* the body of piecewise_linear_decay: builds the lists get_epsilon closes
\* over; zip stops at its shortest argument; a zero decay step makes the
\* division raise ZeroDivisionError
Construct ==
    /\ pd_pc = "call"
    /\ LET boundaries == <<0>> \o pd_boundaries_arg
           final_epsilons ==
               <<pd_initial_value>> \o
                   [k \in 1..Len(pd_values) |->
                       RMul(pd_initial_value, pd_values[k])]
           decay_steps == [k \in 1..(Len(boundaries) - 1) |->
                               boundaries[k + 1] - boundaries[k]]
           n_rates == Min(Len(final_epsilons) - 1, Len(decay_steps))
       IN  IF \E k \in 1..n_rates : decay_steps[k] = 0
             THEN /\ pd_pc' = "error"
                  /\ UNCHANGED <<pd_boundaries, pd_final_epsilons,
                                 pd_decay_rates>>
             ELSE /\ pd_pc' = "built"
                  /\ pd_boundaries' = boundaries
                  /\ pd_final_epsilons' = final_epsilons
                  /\ pd_decay_rates' =
                         [k \in 1..n_rates |->
                             DecayRate(final_epsilons[k], final_epsilons[k + 1],
                                       decay_steps[k])]
    /\ UNCHANGED <<pd_boundaries_arg, pd_values, pd_initial_value, pd_x,
                   pd_result>>
    /\ UNCHANGED notPdVars

\* return final_epsilons[-1]
Floor_First(final_epsilons) == final_epsilons[1]

Floor(final_epsilons) == final_epsilons[Len(final_epsilons)]

\* get_epsilon(x): the segments are the tuples of zip(boundaries[1:],
\* boundaries[:-1], decay_rates, final_epsilons); the first one with
\* x <= boundary gives m * (x - x0) + y0
GetEpsilon(x) ==
    LET n_segments == Min(Min(Len(pd_boundaries) - 1, Len(pd_decay_rates)),
                          Len(pd_final_epsilons))
        hit == {k \in 1..n_segments : x <= pd_boundaries[k + 1]}
    IN  IF hit # {}
          THEN LET k == CHOOSE j \in hit : \A l \in hit : j <= l
                   x0 == pd_boundaries[k]
                   m == pd_decay_rates[k]
                   y0 == pd_final_epsilons[k]
               IN  RAdd(RMul(m, RInt(x - x0)), y0)
          ELSE Floor(pd_final_epsilons)

\* a call get_epsilon(x) of the built function
EvalEpsilon(x) ==
    /\ pd_pc \in {"built", "evaluated"}
    /\ pd_x' = x
    /\ pd_result' = GetEpsilon(x)
    /\ pd_pc' = "evaluated"
    /\ UNCHANGED <<pd_boundaries_arg, pd_values, pd_initial_value,
                   pd_boundaries, pd_final_epsilons, pd_decay_rates>>
    /\ UNCHANGED notPdVars

\* ---- egreedy_police -----------------------------------------------------
\* np.random.random() returns a float in [0, 1), 0.0 included.  A draw is
\* represented by its numerator over DrawRes (0 .. DrawRes-1), epsilon by
\* its numerator over DrawRes (0 .. DrawRes).

NoResult == -1

\* egreedy_police is not being used at all
EgUnused ==
    /\ eg_Q = <<0, 0>>
    /\ eg_epsilon = 0
    /\ eg_pc = "done"
    /\ eg_draw = NoResult
    /\ eg_result = NoResult

\* the arguments of a call of egreedy_police(Q_values, epsilon)
EgInit ==
    /\ eg_Q \in UNION {[1..n -> 0..MaxQ] : n \in 2..MaxNumActions}
    /\ eg_epsilon \in 0..DrawRes
    /\ eg_pc = "call"
    /\ eg_draw = NoResult
    /\ eg_result = NoResult

\* np.argmax: the first index (0-based) of the maximum
ArgMax(q) ==
    (CHOOSE k \in DOMAIN q :
        /\ \A j \in DOMAIN q : q[j] <= q[k]
        /\ \A j \in DOMAIN q : j < k => q[j] < q[k]) - 1

\* np.random.random() <= epsilon
Explore(u, epsilon) == u <= epsilon

\* egreedy_police(Q_values, epsilon) with np.random.random() returning u and
\* np.random.choice returning c
Egreedy(u, c) ==
    /\ eg_pc = "call"
    /\ eg_draw' = u
    /\ IF Explore(u, eg_epsilon)
         THEN /\ c \in 0..(Len(eg_Q) - 1)
              /\ eg_result' = c
         ELSE eg_result' = ArgMax(eg_Q)
    /\ eg_pc' = "done"
    /\ UNCHANGED <<eg_Q, eg_epsilon>>
    /\ UNCHANGED notEgVars


\* ---- DQNAgent.train -----------------------------------------------------
\* One run of train() is the loop Interact, Learn, Log, advance; the target
\* network update and the 'Reward/Life' accumulator touch nothing the other
\* phases read and are left out.  The process can be stopped at any time and
\* train() called again in a new process, which restores the model from the
\* latest checkpoint.

NoCheckpoint == -1
NoBatchYet == -1
NoMean == <<0, 0>>
NaN == <<1, 0>>

\* model.get_global_step(sess) of a freshly started process: the step
\* counter of the latest checkpoint, 0 without one
GetGlobalStep(checkpoint) == IF checkpoint = NoCheckpoint THEN 0 ELSE checkpoint

\* model.increase_global_step(sess, n)
IncreaseGlobalStep(step, n) == step + n

\* model.save(sess): the checkpoint holds the model's global step
Save(step) == step

\* seq[-k:] for k >= 0: the last k entries, and the whole list for k = 0
\* (-0 is 0) and for k > len
LastEntries(seq, k) ==
    IF k = 0 \/ k >= Len(seq) THEN seq
    ELSE SubSeq(seq, Len(seq) - k + 1, Len(seq))

RECURSIVE SumSeq(_)
SumSeq(seq) == IF seq = <<>> THEN 0 ELSE Head(seq) + SumSeq(Tail(seq))

\* np.mean: nan for an empty list
Mean(seq) == IF seq = <<>> THEN NaN ELSE Rat(SumSeq(seq), Len(seq))

\* train() is not being used at all
TrainUnused ==
    /\ t_num_steps = 1
    /\ t_learning_freq = 1
    /\ t_log_steps = 1
    /\ t_global_step = 0
    /\ t_checkpoint = NoCheckpoint
    /\ t_pc = "unused"
    /\ t_i_step = 0
    /\ t_batch = NoBatchYet
    /\ t_ep_rewards = <<>>
    /\ t_num_episodes = 0
    /\ t_num_episodes_old = 0
    /\ t_mean_ep_rewards = NoMean
    /\ t_start = 0
    /\ t_restarts = 0

\* train() is called in a process that found no checkpoint; the state when
\* the while loop is entered
TrainInit ==
    /\ t_num_steps \in 1..MaxNumSteps
    /\ t_learning_freq \in 1..MaxLearningFreq
    /\ t_log_steps \in 1..MaxLogSteps
    /\ t_global_step = GetGlobalStep(NoCheckpoint)
    /\ t_checkpoint = NoCheckpoint
    /\ t_pc = "interact"
    /\ t_i_step = GetGlobalStep(NoCheckpoint)
    /\ t_batch = NoBatchYet
    /\ t_ep_rewards = <<>>
    /\ t_num_episodes = 0
    /\ t_num_episodes_old = 0
    /\ t_mean_ep_rewards = NoMean
    /\ t_start = GetGlobalStep(NoCheckpoint)
    /\ t_restarts = 0

\* the process is stopped or has ended, and train() is called again with
\* the same arguments in a new process: lines 106-123
Restart ==
    /\ t_pc # "unused"
    /\ t_restarts < MaxRestarts
    /\ t_restarts' = t_restarts + 1
    /\ t_global_step' = GetGlobalStep(t_checkpoint)
    /\ t_i_step' = GetGlobalStep(t_checkpoint)
    /\ t_start' = GetGlobalStep(t_checkpoint)
    /\ t_pc' = "interact"
    /\ t_batch' = NoBatchYet
    /\ t_ep_rewards' = <<>>
    /\ t_num_episodes' = 0
    /\ t_num_episodes_old' = 0
    /\ t_mean_ep_rewards' = NoMean
    /\ UNCHANGED <<t_num_steps, t_learning_freq, t_log_steps, t_checkpoint>>
    /\ UNCHANGED notTrainVars

\* _play_and_add_to_buffer: one transition is played and stored; the
\* monitored environment may finish an episode with total reward r
Interact(ended, r) ==
    /\ t_pc = "interact"
    /\ IF ended
         THEN /\ Len(t_ep_rewards) < MaxEpisodes
              /\ t_ep_rewards' = Append(t_ep_rewards, r)
         ELSE /\ r = 0
              /\ UNCHANGED t_ep_rewards
    /\ t_pc' = "learn"
    /\ UNCHANGED <<t_num_steps, t_learning_freq, t_log_steps, t_global_step,
                   t_checkpoint, t_i_step, t_batch, t_num_episodes,
                   t_num_episodes_old, t_mean_ep_rewards, t_start, t_restarts>>
    /\ UNCHANGED notTrainVars

\* if self.i_step % learning_freq == 0
LearnDue(i_step, learning_freq) == i_step % learning_freq = 0

\* Perform gradient descent: the batch is tagged with the step it was
\* produced at (its learning rate is the schedule at that step)
Learn ==
    /\ t_pc = "learn"
    /\ IF LearnDue(t_i_step, t_learning_freq)
         THEN t_batch' = t_i_step
         ELSE UNCHANGED t_batch
    /\ t_pc' = "log"
    /\ UNCHANGED <<t_num_steps, t_learning_freq, t_log_steps, t_global_step,
                   t_checkpoint, t_i_step, t_ep_rewards, t_num_episodes,
                   t_num_episodes_old, t_mean_ep_rewards, t_start, t_restarts>>
    /\ UNCHANGED notTrainVars

\* Write logs: lines 142-160; reading batch['learning_rate'] raises
\* NameError when no batch was produced in this run
Log ==
    /\ t_pc = "log"
    /\ IF t_i_step % t_log_steps = 0
         THEN /\ t_global_step' = IncreaseGlobalStep(t_global_step, t_log_steps)
              /\ t_checkpoint' = Save(t_global_step')
              /\ t_num_episodes_old' = t_num_episodes
              /\ t_num_episodes' = Len(t_ep_rewards)
              /\ t_mean_ep_rewards' =
                     Mean(LastEntries(t_ep_rewards,
                                      t_num_episodes' - t_num_episodes_old'))
              /\ t_pc' = IF t_batch = NoBatchYet THEN "crashed" ELSE "advance"
         ELSE /\ t_pc' = "advance"
              /\ UNCHANGED <<t_global_step, t_checkpoint, t_num_episodes_old,
                             t_num_episodes, t_mean_ep_rewards>>
    /\ UNCHANGED <<t_num_steps, t_learning_freq, t_log_steps, t_i_step,
                   t_batch, t_ep_rewards, t_start, t_restarts>>
    /\ UNCHANGED notTrainVars

\* self.i_step += 1 and the check for termination
Advance ==
    /\ t_pc = "advance"
    /\ t_i_step' = t_i_step + 1
    /\ t_pc' = IF t_i_step' >= t_num_steps THEN "finished" ELSE "interact"
    /\ UNCHANGED <<t_num_steps, t_learning_freq, t_log_steps, t_global_step,
                   t_checkpoint, t_batch, t_ep_rewards, t_num_episodes,
                   t_num_episodes_old, t_mean_ep_rewards, t_start, t_restarts>>
    /\ UNCHANGED notTrainVars


\* ---- train_atari_env.py -------------------------------------------------
\* The script's handling of the environment and of the replay buffer: every
\* env.reset() starts a new episode (numbered 1, 2, ...); a stored transition
\* is the pair of the episode its state belongs to and its done flag.
\* Model creation, training, target updates and logging touch neither and
\* are left out.  MIN_REPLAYS and NUM_STEPS are scaled down.

\* the script is not being used at all
AtariUnused ==
    /\ a_min_replays = 1
    /\ a_num_steps = 1
    /\ a_pc = "unused"
    /\ a_k = 0
    /\ a_i_step = 0
    /\ a_episode = 0
    /\ a_state_episode = 0
    /\ a_stored = <<>>

\* lines 47-54: the environment is created and reset, the buffer is empty
AtariInit ==
    /\ a_min_replays \in 1..MaxMinReplays
    /\ a_num_steps \in 0..MaxAtariSteps
    /\ a_pc = "populate"
    /\ a_k = 0
    /\ a_i_step = 0
    /\ a_episode = 1
    /\ a_state_episode = 1
    /\ a_stored = <<>>

\* buffer.add_state(state) followed by buffer.add_effect(idx, action,
\* reward, done): the transition is in the buffer
Store(stored, episode, done) == Append(stored, [episode |-> episode, done |-> done])

\* one iteration of the populate loop (lines 55-65) in which env.step
\* returns done
PopulateStep(done) ==
    /\ a_pc = "populate"
    /\ a_k < a_min_replays
    /\ a_stored' = Store(a_stored, a_state_episode, done)
    /\ IF done
         THEN /\ a_episode' = a_episode + 1
              /\ a_state_episode' = a_episode + 1
         ELSE UNCHANGED <<a_episode, a_state_episode>>
    /\ a_k' = a_k + 1
    /\ UNCHANGED <<a_min_replays, a_num_steps, a_pc, a_i_step>>
    /\ UNCHANGED notAtariVars

\* lines 67-88: after the populate loop the environment is wrapped in a
\* Monitor and reset, and the main loop starts at the global step (0)
MonitorReset ==
    /\ a_pc = "populate"
    /\ a_k >= a_min_replays
    /\ a_episode' = a_episode + 1
    /\ a_state_episode' = a_episode + 1
    /\ a_i_step' = 0
    /\ a_pc' = "main"
    /\ UNCHANGED <<a_min_replays, a_num_steps, a_k, a_stored>>
    /\ UNCHANGED notAtariVars

\* one iteration of the main loop (lines 88-113) in which env.step returns
\* done; range(global_step, NUM_STEPS + 1) includes NUM_STEPS
MainStep(done) ==
    /\ a_pc = "main"
    /\ a_i_step <= a_num_steps
    /\ a_stored' = Store(a_stored, a_state_episode, done)
    /\ IF done
         THEN /\ a_episode' = a_episode + 1
              /\ a_state_episode' = a_episode + 1
         ELSE UNCHANGED <<a_episode, a_state_episode>>
    /\ a_i_step' = a_i_step + 1
    /\ UNCHANGED <<a_min_replays, a_num_steps, a_pc, a_k>>
    /\ UNCHANGED notAtariVars

\* the main loop is exhausted
MainEnd ==
    /\ a_pc = "main"
    /\ a_i_step > a_num_steps
    /\ a_pc' = "end"
    /\ UNCHANGED <<a_min_replays, a_num_steps, a_k, a_i_step, a_episode,
                   a_state_episode, a_stored>>
    /\ UNCHANGED notAtariVars

\* ---- specifications -----------------------------------------------------

Init == ReplayInit /\ RingUnused /\ EgUnused /\ DsUnused /\ PdUnused /\ TrainUnused /\ AtariUnused

Next ==
    \/ \E e \in Effects, d \in BOOLEAN : Add(e.action, e.reward, d)
    \/ Sample
    \/ \E i \in 0..MaxMaxlen : GenDraw(i)
    \/ GenRaise
    \/ SampleReturn

Spec == Init /\ [][Next]_vars

\* the random draws of _generate_idxs are fair: every candidate start index
\* keeps being drawn, and a finished loop returns
FairSpec ==
    /\ Init
    /\ [][Next]_vars
    /\ \A i \in 0..MaxMaxlen : WF_vars(GenDraw(i))
    /\ WF_vars(GenRaise)
    /\ WF_vars(SampleReturn)

RingSpecInit == ReplayUnused /\ RingInit /\ EgUnused /\ DsUnused /\ PdUnused /\ TrainUnused /\ AtariUnused

RingNext ==
    \/ Reset
    \/ \E x \in RingStates : RingAppend(x)

RingSpec == RingSpecInit /\ [][RingNext]_vars

EgSpecInit == ReplayUnused /\ RingUnused /\ EgInit /\ DsUnused /\ PdUnused /\ TrainUnused /\ AtariUnused

EgNext == \E u \in 0..(DrawRes - 1), c \in 0..(MaxNumActions - 1) : Egreedy(u, c)

EgSpec == EgSpecInit /\ [][EgNext]_vars

DsSpecInit == ReplayUnused /\ RingUnused /\ EgUnused /\ DsInit /\ PdUnused /\ TrainUnused /\ AtariUnused

DsNext == DiscountCall

DsSpec == DsSpecInit /\ [][DsNext]_vars

PdSpecInit == ReplayUnused /\ RingUnused /\ EgUnused /\ DsUnused /\ PdInit /\ TrainUnused /\ AtariUnused

PdNext ==
    \/ Construct
    \/ \E x \in 0..(MaxBoundary + 1) : EvalEpsilon(x)

PdSpec == PdSpecInit /\ [][PdNext]_vars

TrainSpecInit == ReplayUnused /\ RingUnused /\ EgUnused /\ DsUnused /\ PdUnused /\ TrainInit /\ AtariUnused

TrainNext ==
    \/ Restart
    \/ \E ended \in BOOLEAN, r \in 0..MaxEpisodeReward : Interact(ended, r)
    \/ Learn
    \/ Log
    \/ Advance

TrainSpec == TrainSpecInit /\ [][TrainNext]_vars

AtariSpecInit == ReplayUnused /\ RingUnused /\ EgUnused /\ DsUnused /\ PdUnused /\ TrainUnused /\ AtariInit

AtariNext ==
    \/ \E done \in BOOLEAN : PopulateStep(done)
    \/ MonitorReset
    \/ \E done \in BOOLEAN : MainStep(done)
    \/ MainEnd

AtariSpec == AtariSpecInit /\ [][AtariNext]_vars

\* ---- properties of ReplayBuffer -----------------------------------------

\* the batch entries sample() returned
Entries == DOMAIN start_idxs

\* the ordinal of the add() call whose transition slot i holds after n adds
\* into a buffer of m slots, 0 when slot i was never written
FrameOfSlot(i, n, m) ==
    LET written == {k \in 1..n : (k - 1) % m = i}
    IN  IF written = {} THEN 0
        ELSE CHOOSE k \in written : \A l \in written : l <= k

\* C1: in every batch sample() returns, no window [start, start +
\* history_length) holds a stored transition with done = true at a position
\* other than its last frame.
C1_NoInternalDone ==
    pc = "returned" =>
        \A k \in Entries :
            \A j \in start_idxs[k]..(end_idxs[k] - 2) : ~dones[j]

\* a batch was returned while some candidate window has a done inside
C1_Witness ==
    /\ pc = "returned"
    /\ history_length >= 2
    /\ \E i \in 0..(current_len - history_length - 1) :
           \E j \in i..(i + history_length - 2) : dones[j]

\* C2: the frames of every returned state-at-t window were added
\* consecutively and appear in insertion order, oldest first.
C2_ConsecutiveFrames ==
    pc = "returned" =>
        \A k \in Entries :
            LET w == batch.b_states_t[k]
            IN  /\ Len(w) = history_length
                /\ \A j \in 1..(Len(w) - 1) : w[j + 1] = w[j] + 1

\* C3: every returned state-at-t+1 window is the state-at-t window shifted
\* by one transition in insertion order: its last frame was added right
\* after the transition whose action, reward and done are returned.
C3_NextStateShifted ==
    pc = "returned" =>
        \A k \in Entries :
            LET t == batch.b_states_t[k]
                tp1 == batch.b_states_tp1[k]
                h == history_length
            IN  /\ Len(t) = h /\ Len(tp1) = h
                /\ \A j \in 1..(h - 1) : tp1[j] = t[j + 1]
                /\ tp1[h] = t[h] + 1
                /\ \E i \in 0..(maxlen - 1) :
                       /\ states[i] = t[h]
                       /\ batch.actions[k] = actions[i]
                       /\ batch.rewards[k] = rewards[i]
                       /\ batch.dones[k] = dones[i]

\* the frames the buffer should hold after n_adds add() calls
LastAdded == (n_adds - Min(n_adds, maxlen) + 1)..n_adds

C4_Holds ==
    initialized =>
        /\ {states[i] : i \in 0..(current_len - 1)} = LastAdded
        /\ \A i \in 0..(maxlen - 1) : states[i] = FrameOfSlot(i, n_adds, maxlen)

C4_Overwrite ==
    (n_adds' = n_adds + 1 /\ current_len = maxlen) =>
        \E i \in 0..(maxlen - 1) :
            /\ \A j \in 0..(maxlen - 1) : states[i] <= states[j]
            /\ states'[i] = n_adds'
            /\ \A j \in 0..(maxlen - 1) \ {i} :
                   /\ states'[j] = states[j]
                   /\ actions'[j] = actions[j]
                   /\ rewards'[j] = rewards[j]
                   /\ dones'[j] = dones[j]

\* C4: after n add() calls the buffer holds exactly the last min(n, maxlen)
\* transitions added; an add() into a full buffer overwrites the oldest
\* stored transition and leaves every other slot as it was.
C4_HoldsLastAdded == []C4_Holds /\ [][C4_Overwrite]_vars

\* a full buffer of at least two slots has been written into again
C4_Witness ==
    /\ maxlen >= 2
    /\ n_adds > maxlen
    /\ current_len = maxlen

C5_Counters ==
    /\ maxlen \in 1..MaxMaxlen
    /\ 0 <= current_idx
    /\ current_idx < maxlen
    /\ current_idx = n_adds % maxlen
    /\ current_len = Min(n_adds, maxlen)

\* C5: maxlen never changes after construction, and after n add() calls
\* 0 <= current_idx < maxlen, current_idx = n mod maxlen and
\* current_len = min(n, maxlen).
C5_IndexAndLength == []C5_Counters /\ [][maxlen' = maxlen]_vars

\* the write position has wrapped around and moved on
C5_Witness ==
    /\ maxlen >= 2
    /\ n_adds > maxlen
    /\ current_idx > 0

\* C6: every batch sample() returns has batch_size start indices, pairwise
\* distinct, each in [0, current_len - history_length).
C6_DistinctStarts ==
    pc = "returned" =>
        /\ Len(start_idxs) = batch_size
        /\ Len(batch.b_states_t) = batch_size
        /\ \A k, l \in Entries : k # l => start_idxs[k] # start_idxs[l]
        /\ \A k \in Entries :
               start_idxs[k] \in 0..(current_len - history_length - 1)

\* a batch of more than one entry was returned
C6_Witness ==
    /\ pc = "returned"
    /\ batch_size >= 2
    /\ Len(start_idxs) >= 2

\* C7 as stated: on a buffer holding fewer transitions than history_length
\* sample() does not fail with an error.
C7_NeverFails == current_len < history_length => pc # "error"

C7_NoDraw ==
    current_len < history_length =>
        /\ pc # "returned"
        /\ start_idx = NoDraw
        /\ start_idxs = <<>>

C7_FirstDrawRaises ==
    (pc = "gen" /\ current_len < history_length) => pc' = "error"

\* C7, amended: on a buffer holding fewer transitions than history_length
\* (batch_size >= 1) sample() never draws an index, never retries and never
\* returns a batch: its first randint call raises, and the call fails.
C7_FailsOnFirstDraw == []C7_NoDraw /\ [][C7_FirstDrawRaises]_vars

\* sample() failed on a buffer that holds a transition, but too few
C7_Witness ==
    /\ pc = "error"
    /\ n_adds >= 1
    /\ current_len < history_length

\* the start indices _generate_idxs can accept: in range, with no done flag
\* before the last frame of the window
ValidStarts ==
    {i \in 0..(current_len - history_length - 1) :
        \A j \in i..(i + history_length - 2) : ~dones[j]}

\* C8 as stated: whenever current_len > history_length when sample() is
\* called, the sampler eventually returns a batch (fair draws), for every
\* batch_size and every pattern of done flags.
C8_AlwaysReturns ==
    (pc = "gen" /\ current_len > history_length) ~> (pc = "returned")

\* C8, amended: whenever at least batch_size start indices in
\* [0, current_len - history_length) have no done flag before the last frame
\* of their window when sample() is called, the sampler eventually returns a
\* batch (fair draws).
C8_ReturnsWhenEnoughValid ==
    (pc = "gen" /\ Cardinality(ValidStarts) >= batch_size)
        ~> (pc = "returned")

\* a batch was returned although some candidate window is always rejected
C8_Witness ==
    /\ pc = "returned"
    /\ Cardinality(ValidStarts) >= batch_size
    /\ ValidStarts # 0..(current_len - history_length - 1)

\* ---- properties of RingBuffer -------------------------------------------

\* the number of appended states the window can hold
Held == Min(Len(rb_log), rb_maxlen)

C9_Window ==
    rb_data = Zeros(rb_maxlen - Held)
                  \o SubSeq(rb_log, Len(rb_log) - Held + 1, Len(rb_log))

C9_DropsOldest ==
    Len(rb_log') = Len(rb_log) + 1 =>
        /\ \A k \in 1..(rb_maxlen - 1) : rb_data'[k] = rb_data[k + 1]
        /\ rb_data'[rb_maxlen] = rb_log'[Len(rb_log')]

\* C9: after reset() and k append() calls the window holds the last
\* min(k, maxlen) appended states in insertion order, newest last, behind
\* maxlen - min(k, maxlen) all-zero positions; every append drops exactly
\* the entry in the oldest position.
C9_LastAppended == []C9_Window /\ [][C9_DropsOldest]_vars

\* a window of at least two positions has dropped an appended state
C9_Witness ==
    /\ rb_maxlen >= 2
    /\ Len(rb_log) > rb_maxlen
    /\ rb_log[1] # 0
    /\ rb_log[1] \notin Range(rb_data)

\* the last maxlen appended states, oldest first
LastMaxlen == SubSeq(rb_log, Len(rb_log) - rb_maxlen + 1, Len(rb_log))

Distinct(seq) == \A k, l \in DOMAIN seq : k # l => seq[k] # seq[l]

\* C10 as stated: after exactly maxlen append() calls with pairwise distinct
\* states the oldest of them is evicted from the window and the newest is in
\* the last position.
C10_OldestEvicted ==
    (Len(rb_log) = rb_maxlen /\ Distinct(rb_log)) =>
        /\ rb_log[1] \notin Range(rb_data)
        /\ rb_data[rb_maxlen] = rb_log[rb_maxlen]

\* C10, amended: after maxlen append() calls with pairwise distinct states
\* the window holds exactly those maxlen states: the oldest of them is still
\* in the window, in the first position, and the newest is in the last
\* position.
C10_OldestFirstNewestLast ==
    (Len(rb_log) >= rb_maxlen /\ Distinct(LastMaxlen)) =>
        /\ rb_data = LastMaxlen
        /\ rb_data[1] = rb_log[Len(rb_log) - rb_maxlen + 1]
        /\ rb_data[rb_maxlen] = rb_log[Len(rb_log)]

\* exactly maxlen distinct states were appended to a window of two or more
C10_Witness ==
    /\ rb_maxlen >= 2
    /\ Len(rb_log) = rb_maxlen
    /\ Distinct(rb_log)

\* C19: sample() only reads written slots: for every chosen start index,
\* every slot read for the state-at-t window, the state-at-t+1 window and
\* the action/reward/done lookup is below current_len.
C19_ReadsWrittenSlots ==
    pc = "returned" =>
        \A k \in Entries :
            \A i \in ReadSlots(start_idxs[k], end_idxs[k]) :
                i >= 0 /\ i < current_len

\* a batch was returned from a buffer that still has unwritten slots, and
\* one window reaches the newest written slot
C19_Witness ==
    /\ pc = "returned"
    /\ current_len < maxlen
    /\ \E k \in Entries : end_idxs[k] = current_len - 1

\* ---- properties of egreedy_police ---------------------------------------

\* C11: called with epsilon = 0, egreedy_police returns the first index of
\* the maximum Q-value for every outcome of the random draw in [0, 1).
C11_GreedyAtZeroEpsilon ==
    (eg_pc = "done" /\ eg_draw # NoResult /\ eg_epsilon = 0) =>
        /\ \A j \in DOMAIN eg_Q : eg_Q[j] <= eg_Q[eg_result + 1]
        /\ \A j \in DOMAIN eg_Q : j < eg_result + 1 => eg_Q[j] < eg_Q[eg_result + 1]

\* ---- properties of discounted_sum_rewards -------------------------------

\* G_{t+1} of the returned list, 0 past its end
After(res, t) == IF t < Len(res) THEN res[t + 1] ELSE RInt(0)

\* C14: the returned list has the length of rewards, is in forward order,
\* and its element t equals r_t + gamma * G_{t+1} with G_n = 0 past the end;
\* [1, 1, 1] with gamma 1/2 gives [7/4, 3/2, 1].
C14_DiscountedReturns ==
    (ds_pc = "done" /\ ds_rewards # <<>>) =>
        /\ Len(ds_result) = Len(ds_rewards)
        /\ \A t \in 1..Len(ds_rewards) :
               ds_result[t] = RAdd(RInt(ds_rewards[t]),
                                   RMul(ds_gamma, After(ds_result, t)))
        /\ ds_result[Len(ds_rewards)] = RInt(ds_rewards[Len(ds_rewards)])
        /\ (ds_rewards = <<1, 1, 1>> /\ ds_gamma = <<1, 2>>) =>
               ds_result = << <<7, 4>>, <<3, 2>>, <<1, 1>> >>

\* the example of the documentation was computed
C14_Witness ==
    /\ ds_pc = "done"
    /\ ds_rewards = <<1, 1, 1>>
    /\ ds_gamma = <<1, 2>>
    /\ ds_result # <<>>

\* ---- properties of piecewise_linear_decay -------------------------------

\* the number of knots: boundaries that have a value
Knots == Min(Len(pd_boundaries_arg), Len(pd_values))

\* the target value at knot i, the initial value at knot 0
KnotValue(i) ==
    IF i = 0 THEN pd_initial_value
             ELSE RMul(pd_initial_value, pd_values[i])

KnotStep(i) == IF i = 0 THEN 0 ELSE pd_boundaries_arg[i]

\* the straight line from knot i-1 to knot i, at step x
OnSegment(i, x) ==
    RAdd(KnotValue(i - 1),
         RDiv(RMul(RSub(KnotValue(i), KnotValue(i - 1)),
                   RInt(x - KnotStep(i - 1))),
              RInt(KnotStep(i) - KnotStep(i - 1))))

LastBoundary == pd_boundaries_arg[Len(pd_boundaries_arg)]

\* C16 as stated: beyond the last boundary the function returns the value it
\* returns at the last boundary, for every values list the constructor
\* accepts.
C16_NoJumpAfterLastBoundary ==
    (pd_pc = "evaluated" /\ pd_x > LastBoundary) =>
        pd_result = GetEpsilon(LastBoundary)

\* C16, amended: beyond the last boundary the function returns
\* initial_value * values[-1] (initial_value for an empty values list); this
\* is the value at the last boundary when values has at most as many entries
\* as boundaries, or when its last entry equals the entry of the last
\* boundary, as in the example script.
C16_FloorIsLastValue ==
    (pd_pc = "evaluated" /\ pd_x > LastBoundary) =>
        /\ pd_result = KnotValue(Len(pd_values))
        /\ (\/ Len(pd_values) <= Len(pd_boundaries_arg)
            \/ pd_values[Len(pd_values)] = pd_values[Len(pd_boundaries_arg)])
               => pd_result = GetEpsilon(LastBoundary)

\* the shape of the example script: one value more than boundaries, the last
\* two values equal and different from the one before, evaluated beyond the
\* last boundary
C16_Witness ==
    /\ pd_pc = "evaluated"
    /\ Len(pd_boundaries_arg) = 2
    /\ Len(pd_values) = 3
    /\ pd_values[3] = pd_values[2]
    /\ pd_values[1] # pd_values[2]
    /\ pd_x > LastBoundary

\* ---- properties of DQNAgent.train ---------------------------------------

\* the episodes that finished between the previous Log point and the last one
SincePreviousLog == SubSeq(t_ep_rewards, t_num_episodes_old + 1, t_num_episodes)

\* C12: at every Log point the logged 'Reward/Episode (unclipped)' value is
\* the mean over exactly the episodes that finished since the previous Log
\* point, whatever their number (zero included).
C12_MeanOfNewEpisodes ==
    t_mean_ep_rewards # NoMean => t_mean_ep_rewards = Mean(SincePreviousLog)

\* the phases of an iteration that follow its Interact step
AfterInteract == {"learn", "log", "advance"}

\* C13: train performs an Interact step only while i_step is below
\* num_steps, whatever global step the run started from, and a run that
\* started below num_steps ends with i_step = num_steps.
C13_InteractBelowNumSteps ==
    /\ t_pc \in AfterInteract => t_i_step < t_num_steps
    /\ (t_pc = "finished" /\ t_start < t_num_steps) => t_i_step = t_num_steps

\* C17: whenever the model is checkpointed in the Log phase, the persisted
\* global step equals the loop's step counter i_step.
C17_CheckpointAtStep ==
    [][t_checkpoint' # t_checkpoint => t_checkpoint' = t_i_step]_vars

\* C18: whenever the Log phase runs, a Learn phase of the same run has
\* already produced the batch it reads.
C18_LearnBeforeLog ==
    [][t_checkpoint' # t_checkpoint => t_batch # NoBatchYet]_vars

\* ---- properties of train_atari_env.py -----------------------------------

\* a reset is preceded by a stored transition with done = true, when there
\* is a stored transition
ResetAfterDone ==
    (a_episode' # a_episode /\ a_stored' # <<>>) =>
        a_stored'[Len(a_stored')].done

\* consecutive stored transitions of different episodes are separated by a
\* done flag
BoundariesMarked ==
    \A k \in 1..(Len(a_stored) - 1) :
        a_stored[k].episode # a_stored[k + 1].episode => a_stored[k].done

\* C20: every environment reset that happens after a transition has been
\* stored directly follows a stored transition with done = true, in the
\* populate loop, at the switch to the monitored environment and in the main
\* loop; so every episode boundary in the buffer is marked by a done flag.
C20_ResetsFollowDone == [][ResetAfterDone]_vars /\ []BoundariesMarked

====
